---- MODULE Spec2Model ----
(***************************************************************************)
(* A model of novel_downloader.py: the pager, the chapter-URL extraction,  *)
(* the sequential chapter download and the assembly of the novel.          *)
(*                                                                         *)
(* Text is a sequence of one-character strings, so that the regular        *)
(* expressions, str(), int(), zfill(), title() and casefold() are computed *)
(* character by character as Python computes them.                         *)
(***************************************************************************)
EXTENDS Integers, Sequences, FiniteSets, TLC

VARIABLES
    \* ---- main(url) ----
    pc,                 \* position of main
    home_url,           \* the argument of main
    dirs,               \* directories created by create_directories
    files,              \* the writes of text_to_file, in order: <<path, text>>
    requested,          \* the URLs given to session.get, in order
    responses,          \* what session.get answered for each listing page
    chapter_pager_last, \* main's local of the same name (-1: not yet computed)
    page_number,        \* loop variable of extract_chapter_urls
    chapter_urls,       \* the accumulating list of extract_chapter_urls
    chapter_number,     \* enumerate() index of download_all_chapters (0-based)
    driver_gets,        \* the URLs given to driver.get, in order
    chapters,           \* the Chapter objects constructed, in order
    chapter_htmls,      \* the list download_all_chapters returns
    failure,            \* what made the run abort ("none" while it has not)
    session_open,       \* requests.Session not yet closed
    driver_open,        \* webdriver.Chrome not yet closed
    \* ---- get_total_pages_in_chapter_pager on its own ----
    anchor_markup,      \* the fragments the anchor page is made of
    pager_result,       \* [state: "pending", "raised" or "returned", value]
    \* ---- convert_line_breaks_to_html on its own ----
    s_in,               \* the input text
    s_once,             \* the text after one application
    s_twice             \* the text after two applications

mainvars == <<pc, home_url, dirs, files, requested, responses, chapter_pager_last,
              page_number, chapter_urls, chapter_number, driver_gets, chapters,
              chapter_htmls, failure, session_open, driver_open>>
pagervars == <<anchor_markup, pager_result>>
breakvars == <<s_in, s_once, s_twice>>
vars == <<mainvars, pagervars, breakvars>>

-----------------------------------------------------------------------------
(* Bounds of the model *)

\* largest pagination bound an anchor page of the run announces
MaxPages == 3
\* largest number of real chapter links on one listing page
MaxReal == 4
\* longest text given to convert_line_breaks_to_html
MaxLen == 5
\* most fragments of an anchor page given to the pager on its own
MaxFrags == 3

-----------------------------------------------------------------------------
(* Text helpers *)

NL == "\n"
DigitSeq == <<"0", "1", "2", "3", "4", "5", "6", "7", "8", "9">>
IsDigit(c) == \E d \in 1..10 : DigitSeq[d] = c
DigitVal(c) == (CHOOSE d \in 1..10 : DigitSeq[d] = c) - 1

\* str(n) for n >= 0
RECURSIVE Str(_)
Str(n) == IF n < 10 THEN <<DigitSeq[n + 1]>>
          ELSE Str(n \div 10) \o <<DigitSeq[(n % 10) + 1]>>

\* int(s) for a non-empty string of decimal digits
RECURSIVE ToInt(_)
ToInt(s) == IF Len(s) = 0 THEN 0
            ELSE 10 * ToInt(SubSeq(s, 1, Len(s) - 1)) + DigitVal(s[Len(s)])

\* s[i:i+len(lit)] == lit
HasAt(s, i, lit) ==
    /\ i >= 1
    /\ i + Len(lit) - 1 <= Len(s)
    /\ SubSeq(s, i, i + Len(lit) - 1) = lit

\* the last index of the run of digits that starts at i (i - 1 when s[i] is no digit)
DigitRunEnd(s, i) ==
    LET ends == {j \in (i - 1)..Len(s) : \A k \in i..j : IsDigit(s[k])}
    IN  CHOOSE j \in ends : \A k \in ends : k <= j

RECURSIVE Flatten(_)
Flatten(ss) == IF Len(ss) = 0 THEN <<>> ELSE Head(ss) \o Flatten(Tail(ss))

\* all sequences over S of length at most n
RECURSIVE SeqsUpTo(_, _)
SeqsUpTo(S, n) ==
    IF n = 0 THEN {<<>>}
    ELSE LET shorter == SeqsUpTo(S, n - 1)
         IN  shorter \cup {Append(t, x) : t \in shorter, x \in S}

-----------------------------------------------------------------------------
(* class Html, class RegEx *)

DOUBLE_LINE_BREAK == <<"<", "b", "r", ">", "<", "b", "r", ">">>

\* re.sub(r"\n+", repl, s) from position i on: a maximal run of line breaks
\* starting at i is consumed whole and replaced once
RECURSIVE SubWhiteLines(_, _, _)
SubWhiteLines(s, i, repl) ==
    IF i > Len(s) THEN <<>>
    ELSE IF s[i] = NL
         THEN LET j == CHOOSE j \in i..Len(s) :
                         /\ \A k \in i..j : s[k] = NL
                         /\ (j = Len(s) \/ s[j + 1] # NL)
              IN  repl \o SubWhiteLines(s, j + 1, repl)
         ELSE <<s[i]>> \o SubWhiteLines(s, i + 1, repl)

\* a bug: the pattern \n instead of \n+, one separator per line break
RECURSIVE SubEachLine(_)
SubEachLine(s) ==
    IF Len(s) = 0 THEN <<>>
    ELSE (IF Head(s) = NL THEN DOUBLE_LINE_BREAK ELSE <<Head(s)>>) \o SubEachLine(Tail(s))

convert_line_breaks_to_html(s) == SubWhiteLines(s, 1, DOUBLE_LINE_BREAK)

DATA_PAGE == <<"d", "a", "t", "a", "-", "p", "a", "g", "e", "=", "\"">>
FINAL == <<"F", "i", "n", "a", "l">>
HTML == <<"h", "t", "m", "l">>

\* LAST_PAGE_CONTAINER = data-page="\d+.*Final tried at position i: the index of
\* the last character matched, 0 when there is no match at i.  \d+ needs one
\* digit at least; .* is greedy and stops at a line break (no DOTALL), so the
\* match runs to the last "Final" of the line.
LastPageContainerAt(text, i) ==
    LET p == i + Len(DATA_PAGE)
    IN  IF ~(HasAt(text, i, DATA_PAGE) /\ p <= Len(text) /\ IsDigit(text[p])) THEN 0
        ELSE LET finals == {f \in (p + 1)..Len(text) :
                              /\ HasAt(text, f, FINAL)
                              /\ \A k \in p..(f - 1) : text[k] # NL}
             IN  IF finals = {} THEN 0
                 ELSE (CHOOSE f \in finals : \A g \in finals : g <= f) + Len(FINAL) - 1

\* re.search(LAST_PAGE_CONTAINER, text): the leftmost match, <<>> for None
SearchLastPageContainer(text) ==
    LET starts == {i \in 1..Len(text) : LastPageContainerAt(text, i) # 0}
    IN  IF starts = {} THEN <<>>
        ELSE LET i == CHOOSE i \in starts : \A j \in starts : i <= j
             IN  SubSeq(text, i, LastPageContainerAt(text, i))

\* re.search(ANY_NUMBERS, text).group(): the leftmost maximal run of digits
SearchAnyNumbers(text) ==
    LET starts == {i \in 1..Len(text) : IsDigit(text[i])}
        i == CHOOSE i \in starts : \A j \in starts : i <= j
    IN  SubSeq(text, i, DigitRunEnd(text, i))

\* a bug: with no marker on the page the pager answers one page
PagerFallsBackToOne(file_content) ==
    LET container == SearchLastPageContainer(file_content)
    IN  IF container = <<>> THEN [raised |-> FALSE, value |-> 1]
        ELSE [raised |-> FALSE, value |-> ToInt(SearchAnyNumbers(container))]

\* get_total_pages_in_chapter_pager on the content of output/home.html:
\* re.search returns None when the pattern is absent and .group() raises
get_total_pages_in_chapter_pager(file_content) ==
    LET container == SearchLastPageContainer(file_content)
    IN  IF container = <<>> THEN [raised |-> TRUE, value |-> 0]
        ELSE [raised |-> FALSE, value |-> ToInt(SearchAnyNumbers(container))]

\* home_url.rsplit(sep="/", maxsplit=2): <<base_domain, novel_title>>
\* (the URLs of the model hold two slashes at least)
split_home_url(url) ==
    LET slashes == {i \in 1..Len(url) : url[i] = "/"}
        last == CHOOSE i \in slashes : \A j \in slashes : j <= i
        before == CHOOSE i \in slashes \ {last} : \A j \in slashes \ {last} : j <= i
    IN  <<SubSeq(url, 1, before - 1), SubSeq(url, before + 1, last - 1)>>

\* rf"/{novel_title}-\d+.html" tried at position i with re.DOTALL: the index of
\* the last character matched, 0 when there is no match at i.  \d+ is greedy
\* and gives digits back until one character (any, "." is not escaped) and
\* "html" follow.
RelUrlAt(content, i, novel_title) ==
    LET prefix == <<"/">> \o novel_title \o <<"-">>
        p == i + Len(prefix)
    IN  IF ~HasAt(content, i, prefix) THEN 0
        ELSE LET ok == {k \in p..DigitRunEnd(content, p) :
                          k + 1 <= Len(content) /\ HasAt(content, k + 2, HTML)}
             IN  IF ok = {} THEN 0
                 ELSE (CHOOSE k \in ok : \A l \in ok : l <= k) + 1 + Len(HTML)

\* re.findall(rel_url_pattern, content, re.DOTALL) from position i on:
\* non-overlapping matches, left to right
RECURSIVE FindAllRelUrls(_, _, _)
FindAllRelUrls(content, i, novel_title) ==
    LET starts == {j \in i..Len(content) : RelUrlAt(content, j, novel_title) # 0}
    IN  IF starts = {} THEN <<>>
        ELSE LET j == CHOOSE j \in starts : \A k \in starts : j <= k
                 e == RelUrlAt(content, j, novel_title)
             IN  <<SubSeq(content, j, e)>> \o FindAllRelUrls(content, e + 1, novel_title)

parse_chapter_urls(listing_page_content, url) ==
    LET base_domain == split_home_url(url)[1]
        novel_title == split_home_url(url)[2]
        chapter_rel_urls == FindAllRelUrls(listing_page_content, 1, novel_title)
    IN  [k \in 1..Len(chapter_rel_urls) |-> base_domain \o chapter_rel_urls[k]]

\* the slice [6:] of extract_chapter_urls
DECOYS == 6
Slice(list, from) == SubSeq(list, from + 1, Len(list))

\* a bug: the number is not padded
PadNumberNoFill(number, pad_length) == Str(number)

\* str(number).zfill(pad_length)
pad_number(number, pad_length) ==
    LET digits == Str(number)
    IN  IF Len(digits) >= pad_length THEN digits
        ELSE [k \in 1..(pad_length - Len(digits)) |-> "0"] \o digits

-----------------------------------------------------------------------------
(* The markup the site serves, built from fragments *)

Frag(kind, n) == [kind |-> kind, n |-> n]

\* <a data-page="n">label</a>
PagerLink(n, label) ==
    <<"<", "a", " ">> \o DATA_PAGE \o Str(n) \o <<"\"", ">">> \o label
        \o <<"<", "/", "a", ">">>

\* a fragment of an anchor page: the link to the last page ("final"), the link
\* to page n ("num"), a line break ("nl"), the bare word Final ("word")
AnchorFragText(f) ==
    CASE f.kind = "final" -> PagerLink(f.n, FINAL)
      [] f.kind = "num"   -> PagerLink(f.n, Str(f.n))
      [] f.kind = "nl"    -> <<NL>>
      [] f.kind = "word"  -> FINAL

AnchorText(frags) == Flatten([k \in 1..Len(frags) |-> AnchorFragText(frags[k])])

\* the state of main's variables while a function is exercised on its own
MainIdle ==
    /\ pc = "idle"
    /\ home_url = <<>>
    /\ dirs = {}
    /\ files = <<>>
    /\ requested = <<>>
    /\ responses = <<>>
    /\ chapter_pager_last = -1
    /\ page_number = 0
    /\ chapter_urls = <<>>
    /\ chapter_number = 0
    /\ driver_gets = <<>>
    /\ chapters = <<>>
    /\ chapter_htmls = <<>>
    /\ failure = "none"
    /\ session_open = TRUE
    /\ driver_open = TRUE

PagerIdle ==
    /\ anchor_markup = <<>>
    /\ pager_result = [state |-> "idle", value |-> 0]

Pending == <<"pending">>

BreaksIdle ==
    /\ s_in = <<>>
    /\ s_once = Pending
    /\ s_twice = Pending

-----------------------------------------------------------------------------
(* get_total_pages_in_chapter_pager on its own *)

PagerFrags ==
    {Frag("final", 3), Frag("final", 12), Frag("num", 1), Frag("num", 2),
     Frag("nl", 0), Frag("word", 0)}

PagerInit ==
    /\ MainIdle
    /\ BreaksIdle
    /\ anchor_markup \in SeqsUpTo(PagerFrags, MaxFrags)
    /\ pager_result = [state |-> "pending", value |-> 0]

PagerApply ==
    /\ pager_result.state = "pending"
    /\ LET r == get_total_pages_in_chapter_pager(AnchorText(anchor_markup))
       IN  pager_result' = [state |-> IF r.raised THEN "raised" ELSE "returned",
                            value |-> r.value]
    /\ UNCHANGED <<anchor_markup, mainvars, breakvars>>

SpecPager == PagerInit /\ [][PagerApply]_vars

-----------------------------------------------------------------------------
(* convert_line_breaks_to_html on its own *)

BreakAlphabet == {NL, "a", "<"}

BreaksInit ==
    /\ MainIdle
    /\ PagerIdle
    /\ s_in \in SeqsUpTo(BreakAlphabet, MaxLen)
    /\ s_once = Pending
    /\ s_twice = Pending

ConvertOnce ==
    /\ s_once = Pending
    /\ s_once' = convert_line_breaks_to_html(s_in)
    /\ UNCHANGED <<s_in, s_twice, mainvars, pagervars>>

ConvertTwice ==
    /\ s_once # Pending
    /\ s_twice = Pending
    /\ s_twice' = convert_line_breaks_to_html(s_once)
    /\ UNCHANGED <<s_in, s_once, mainvars, pagervars>>

BreaksNext == ConvertOnce \/ ConvertTwice

SpecBreaks == BreaksInit /\ [][BreaksNext]_vars

-----------------------------------------------------------------------------
(* class FolderName, class FilePath, the path helpers *)

OUTPUT == <<"o", "u", "t", "p", "u", "t">>
CHAPTERS == <<"c", "h", "a", "p", "t", "e", "r", "s">>
DOT_HTML == <<".">> \o HTML
HOME_PAGE == OUTPUT \o <<"/", "h", "o", "m", "e">> \o DOT_HTML

get_novel_dir(novel_title) == OUTPUT \o <<"/">> \o novel_title
get_chapters_dir(novel_dir) == novel_dir \o <<"/">> \o CHAPTERS

\* the content of file_path after the writes so far (<<>> when never written)
RECURSIVE ReadFile(_, _)
ReadFile(writes, file_path) ==
    IF Len(writes) = 0 THEN <<>>
    ELSE IF writes[Len(writes)][1] = file_path THEN writes[Len(writes)][2]
    ELSE ReadFile(SubSeq(writes, 1, Len(writes) - 1), file_path)

-----------------------------------------------------------------------------
(* str.title(), str.casefold(), the file name of a chapter *)

LowerOf(c) == CASE c = "A" -> "a" [] c = "B" -> "b" [] OTHER -> c
UpperOf(c) == CASE c = "a" -> "A" [] c = "b" -> "B" [] OTHER -> c
IsCased(c) == c \in {"a", "b", "A", "B"}

\* str.title(): a cased character is upper-cased after an uncased one (or at
\* the start) and lower-cased after a cased one
Title(s) ==
    [i \in 1..Len(s) |->
        IF i = 1 \/ ~IsCased(s[i - 1]) THEN UpperOf(s[i]) ELSE LowerOf(s[i])]

Casefold(s) == [i \in 1..Len(s) |-> LowerOf(s[i])]

\* "-".join(title.split(sep=" ")): every space becomes a dash
Dashed(s) == [i \in 1..Len(s) |-> IF s[i] = " " THEN "-" ELSE s[i]]

\* the file_path of save_chapter
chapter_file_path(chapters_dir, number_padded, title) ==
    chapters_dir \o <<"/">> \o number_padded \o <<"_">> \o Casefold(Dashed(title)) \o DOT_HTML

\* what the jinja2 templates produce, as opaque documents of their arguments
render_chapter_template(chapter_title, chapter_body) ==
    [template |-> "chapter", chapter_title |-> chapter_title, chapter_body |-> chapter_body]
render_novel_template(htmls) ==
    [template |-> "novel", chapter_htmls |-> htmls]

-----------------------------------------------------------------------------
(* The site *)

\* the URL of line 278, shortened: scheme, host "h", novel "d", trailing slash
HomeUrls == {<<"s", ":", "/", "/", "h", "/", "d", "/">>}

\* a fragment of a listing page: a chapter link of this novel ("link"), the
\* same with another character where the dot is ("wild"), a link of another
\* novel ("other"), a link with no number ("bare"), a line break ("nl")
RelPath(f) ==
    <<"/", "d", "-">> \o Str(f.n) \o (IF f.kind = "wild" THEN <<"x">> \o HTML ELSE DOT_HTML)

ListingFragText(f) ==
    CASE f.kind = "link"  -> <<"<", "a", " ", "h", "r", "e", "f", "=", "\"">>
                               \o RelPath(f) \o <<"\"", ">">>
      [] f.kind = "wild"  -> RelPath(f)
      [] f.kind = "other" -> <<"/", "e", "-">> \o Str(f.n) \o DOT_HTML
      [] f.kind = "bare"  -> <<"/", "d", "-">> \o DOT_HTML
      [] f.kind = "nl"    -> <<NL>>

ListingText(frags) == Flatten([k \in 1..Len(frags) |-> ListingFragText(frags[k])])

\* the six decoy links every listing page starts with, and m real links
DecoyBlock == [k \in 1..6 |-> Frag("link", 90 + k)]
RealLinks(m) == [k \in 1..m |-> Frag("link", k)]

ListingPages ==
    { DecoyBlock,
      DecoyBlock \o <<Frag("nl", 0), Frag("link", 1)>>,
      DecoyBlock \o RealLinks(MaxReal),
      DecoyBlock \o <<Frag("other", 5), Frag("wild", 7), Frag("nl", 0),
                      Frag("bare", 0), Frag("link", 10)>>,
      <<Frag("link", 1), Frag("link", 2), Frag("link", 3)>> }

\* what session.get gives for a listing page: the page, an error page that
\* the server answers with an error status, or an exception after the retries
ListingResponses ==
    [status : {"ok"}, frags : ListingPages]
        \cup {[status |-> "error", frags |-> <<Frag("other", 5)>>],
              [status |-> "raised", frags |-> <<>>]}

\* what session.get gives for the home page
AnchorPages ==
    {<<Frag("final", P)>> : P \in 0..MaxPages}
        \cup { <<Frag("num", 1), Frag("nl", 0), Frag("num", 2), Frag("nl", 0),
                 Frag("final", 2)>>,
               <<Frag("num", 1), Frag("final", 2)>>,
               <<Frag("num", 1), Frag("word", 0)>>,
               <<Frag("num", 1), Frag("nl", 0), Frag("num", 2)>>,
               <<Frag("word", 0), Frag("nl", 0), Frag("num", 1)>>,
               <<>> }

\* the rendered chapter documents: title element text and body element text
ChapterDocs ==
    << [title |-> <<"a", " ", "b">>, body |-> <<"a", NL, NL, "b">>],
       [title |-> <<"a", "B", "1", "a">>, body |-> <<"a", NL, "b", NL>>],
       [title |-> <<"B">>, body |-> <<"a", "b">>] >>

\* the document the site serves at a chapter URL: chosen by the digit that
\* ends the chapter number
ChapterDoc(url) ==
    ChapterDocs[(DigitVal(url[Len(url) - Len(DOT_HTML)]) % Len(ChapterDocs)) + 1]

-----------------------------------------------------------------------------
(* main(url) *)

MainInit ==
    /\ pc = "start"
    /\ home_url \in HomeUrls
    /\ dirs = {}
    /\ files = <<>>
    /\ requested = <<>>
    /\ responses = <<>>
    /\ chapter_pager_last = -1
    /\ page_number = 0
    /\ chapter_urls = <<>>
    /\ chapter_number = 0
    /\ driver_gets = <<>>
    /\ chapters = <<>>
    /\ chapter_htmls = <<>>
    /\ failure = "none"
    /\ session_open = TRUE
    /\ driver_open = TRUE

Init == MainInit /\ PagerIdle /\ BreaksIdle

novel_title == split_home_url(home_url)[2]
novel_dir == get_novel_dir(novel_title)
chapters_dir == get_chapters_dir(novel_dir)

\* an exception leaves main: nothing after the raising statement runs
Abort(why) ==
    /\ pc' = "aborted"
    /\ failure' = why

\* lines 261-263: _split_home_url, create_directories
CreateDirectories ==
    /\ pc = "start"
    /\ dirs' = dirs \cup {OUTPUT, novel_dir, chapters_dir}
    /\ pc' = "download_home"
    /\ UNCHANGED <<pagervars, breakvars>>
    /\ UNCHANGED <<home_url, files, requested, responses, chapter_pager_last,
                   page_number, chapter_urls, chapter_number, driver_gets,
                   chapters, chapter_htmls, failure, session_open, driver_open>>

\* line 264: download_home_page, url_to_file
DownloadHomePage ==
    /\ pc = "download_home"
    /\ requested' = Append(requested, home_url)
    /\ \/ /\ Abort("home_fetch")
          /\ UNCHANGED files
       \/ /\ \E page \in AnchorPages :
                files' = Append(files, <<HOME_PAGE, AnchorText(page)>>)
          /\ pc' = "pager"
          /\ UNCHANGED failure
    /\ UNCHANGED <<pagervars, breakvars>>
    /\ UNCHANGED <<home_url, dirs, responses, chapter_pager_last, page_number,
                   chapter_urls, chapter_number, driver_gets, chapters,
                   chapter_htmls, session_open, driver_open>>

\* line 265: get_total_pages_in_chapter_pager
GetTotalPages ==
    /\ pc = "pager"
    /\ LET r == get_total_pages_in_chapter_pager(ReadFile(files, HOME_PAGE))
       IN  IF r.raised
           THEN /\ Abort("pager")
                /\ UNCHANGED <<chapter_pager_last, page_number>>
           ELSE /\ chapter_pager_last' = r.value
                /\ page_number' = 1
                /\ pc' = "extract"
                /\ UNCHANGED failure
    /\ UNCHANGED <<pagervars, breakvars>>
    /\ UNCHANGED <<home_url, dirs, files, requested, responses, chapter_urls,
                   chapter_number, driver_gets, chapters, chapter_htmls,
                   session_open, driver_open>>

page_url(n) == home_url \o <<"?", "p", "a", "g", "e", "=">> \o Str(n)

\* a bug: one decoy too few is dropped
ChapterUrlsSliceFive(page_content, url) ==
    Slice(parse_chapter_urls(page_content, url), DECOYS - 1)

\* the chapter URLs one listing page contributes (lines 142-146)
chapter_urls_in_page(page_content, url) ==
    Slice(parse_chapter_urls(page_content, url), DECOYS)

\* a bug: a URL already in the list is not added again
ExtendNew(list, items) ==
    list \o SelectSeq(items, LAMBDA u : \A k \in 1..Len(list) : list[k] # u)

\* list.extend (line 148)
Extend(list, items) == list \o items

\* lines 137-148: one iteration of the loop of extract_chapter_urls
ExtractPage ==
    /\ pc = "extract"
    /\ page_number <= chapter_pager_last
    /\ requested' = Append(requested, page_url(page_number))
    /\ \E resp \in ListingResponses :
         /\ responses' = Append(responses, resp)
         /\ IF resp.status = "raised"
            THEN /\ Abort("listing_fetch")
                 /\ UNCHANGED <<chapter_urls, page_number>>
            ELSE /\ chapter_urls' = Extend(chapter_urls,
                        chapter_urls_in_page(ListingText(resp.frags), home_url))
                 /\ page_number' = page_number + 1
                 /\ UNCHANGED <<pc, failure>>
    /\ UNCHANGED <<pagervars, breakvars>>
    /\ UNCHANGED <<home_url, dirs, files, chapter_pager_last, chapter_number,
                   driver_gets, chapters, chapter_htmls, session_open, driver_open>>

\* a bug: the return statement stands inside the loop, so the list is returned
\* after the first listing page
ExtractReturnsInLoop ==
    /\ pc = "extract"
    /\ page_number > chapter_pager_last \/ page_number > 1
    /\ pc' = "download"
    /\ chapter_number' = 0
    /\ UNCHANGED <<pagervars, breakvars>>
    /\ UNCHANGED <<home_url, dirs, files, requested, responses, chapter_pager_last,
                   page_number, chapter_urls, driver_gets, chapters, chapter_htmls,
                   failure, session_open, driver_open>>

\* lines 149, 266-267 and 199-201: extract_chapter_urls returns the list and
\* download_all_chapters starts on it
ExtractReturn ==
    /\ pc = "extract"
    /\ page_number > chapter_pager_last
    /\ pc' = "download"
    /\ chapter_number' = 0
    /\ UNCHANGED <<pagervars, breakvars>>
    /\ UNCHANGED <<home_url, dirs, files, requested, responses, chapter_pager_last,
                   page_number, chapter_urls, driver_gets, chapters, chapter_htmls,
                   failure, session_open, driver_open>>

\* a bug (the other policy): a chapter that fails is skipped and the loop goes on
ChapterFailureSkips(why) ==
    /\ failure' = why
    /\ chapter_number' = chapter_number + 1
    /\ UNCHANGED <<pc, chapters, files, chapter_htmls>>

\* lines 248-252 raise and nothing catches: not in download_chapter, not in the
\* loop of download_all_chapters (lines 202-210), not in main
ChapterFailure(why) ==
    /\ Abort(why)
    /\ UNCHANGED <<chapters, files, chapter_htmls, chapter_number>>

\* lines 202-210 and 247-257: one iteration of the loop of
\* download_all_chapters, with download_chapter and save_chapter
DownloadChapter ==
    /\ pc = "download"
    /\ chapter_number < Len(chapter_urls)
    /\ LET total_number_of_chapters == Len(chapter_urls)
           pad_length == Len(Str(total_number_of_chapters))
           url == chapter_urls[chapter_number + 1]
           padded_chapter_number == pad_number(chapter_number + 1, pad_length)
           doc == ChapterDoc(url)
           chapter_title == Title(doc.title)
           chapter_body_html == convert_line_breaks_to_html(doc.body)
           chapter_html == render_chapter_template(chapter_title, chapter_body_html)
           chapter == [number_padded |-> padded_chapter_number,
                       title |-> chapter_title, html |-> chapter_html]
       IN  /\ driver_gets' = Append(driver_gets, url)
           /\ \/ \E why \in {"chapter_fetch", "chapter_title", "chapter_body"} :
                      ChapterFailure(why)
              \/ /\ chapters' = Append(chapters, chapter)
                 /\ files' = Append(files,
                        <<chapter_file_path(chapters_dir, chapter.number_padded,
                                            chapter.title), chapter.html>>)
                 /\ chapter_htmls' = Append(chapter_htmls, chapter_html)
                 /\ chapter_number' = chapter_number + 1
                 /\ UNCHANGED <<pc, failure>>
    /\ UNCHANGED <<pagervars, breakvars>>
    /\ UNCHANGED <<home_url, dirs, requested, responses, chapter_pager_last,
                   page_number, chapter_urls, session_open, driver_open>>

novel_file_path == novel_dir \o <<"/">> \o novel_title \o DOT_HTML

\* lines 211 and 269-272: download_all_chapters returns, render_novel_template,
\* save_novel
SaveNovel ==
    /\ pc = "download"
    /\ chapter_number = Len(chapter_urls)
    /\ files' = Append(files, <<novel_file_path, render_novel_template(chapter_htmls)>>)
    /\ pc' = "close_session"
    /\ UNCHANGED <<pagervars, breakvars>>
    /\ UNCHANGED <<home_url, dirs, requested, responses, chapter_pager_last,
                   page_number, chapter_urls, chapter_number, driver_gets, chapters,
                   chapter_htmls, failure, session_open, driver_open>>

\* line 273
CloseSession ==
    /\ pc = "close_session"
    /\ session_open' = FALSE
    /\ pc' = "close_driver"
    /\ UNCHANGED <<pagervars, breakvars>>
    /\ UNCHANGED <<home_url, dirs, files, requested, responses, chapter_pager_last,
                   page_number, chapter_urls, chapter_number, driver_gets, chapters,
                   chapter_htmls, failure, driver_open>>

\* line 274
CloseDriver ==
    /\ pc = "close_driver"
    /\ driver_open' = FALSE
    /\ pc' = "done"
    /\ UNCHANGED <<pagervars, breakvars>>
    /\ UNCHANGED <<home_url, dirs, files, requested, responses, chapter_pager_last,
                   page_number, chapter_urls, chapter_number, driver_gets, chapters,
                   chapter_htmls, failure, session_open>>

Next ==
    \/ CreateDirectories
    \/ DownloadHomePage
    \/ GetTotalPages
    \/ ExtractPage
    \/ ExtractReturn
    \/ DownloadChapter
    \/ SaveNovel
    \/ CloseSession
    \/ CloseDriver

Spec == Init /\ [][Next]_vars

-----------------------------------------------------------------------------
(* Claims about the pager and the normalisation *)

\* the anchor page holds exactly one terminal-page marker, with value P >= 1,
\* among other pagination links with other values, on any lines
OneMarkerAmongLinks(frags, P) ==
    /\ P >= 1
    /\ \E k \in 1..Len(frags) :
         /\ frags[k] = Frag("final", P)
         /\ \A j \in 1..Len(frags) : j # k =>
              \/ frags[j].kind = "nl"
              \/ frags[j].kind = "num" /\ frags[j].n # P

\* C4: for every anchor page with exactly one terminal-page marker of value
\* P >= 1 among other pagination links, on the same line or on other lines,
\* get_total_pages_in_chapter_pager returns exactly P.
C4_PagerReturnsMarkerValue ==
    \A P \in {f.n : f \in PagerFrags} :
        (pager_result.state # "pending" /\ OneMarkerAmongLinks(anchor_markup, P))
            => (pager_result.state = "returned" /\ pager_result.value = P)

\* the index sets of the maximal runs of line breaks of s
RunStarts(s) == {i \in 1..Len(s) : s[i] = NL /\ (i = 1 \/ s[i - 1] # NL)}

\* what each character of s becomes: a separator at the start of a run of line
\* breaks, nothing for the rest of the run, itself otherwise
Collapsed(s) ==
    Flatten([i \in 1..Len(s) |->
                IF s[i] # NL THEN <<s[i]>>
                ELSE IF i \in RunStarts(s) THEN DOUBLE_LINE_BREAK
                ELSE <<>>])

\* C8: convert_line_breaks_to_html is idempotent, and one application turns
\* every maximal run of line breaks into exactly one "<br><br>" and leaves no
\* line break.
C8_NormalizationIdempotent ==
    /\ s_once # Pending =>
         /\ s_once = Collapsed(s_in)
         /\ \A i \in 1..Len(s_once) : s_once[i] # NL
         /\ Len(s_once) = Cardinality({i \in 1..Len(s_in) : s_in[i] # NL})
                            + Len(DOUBLE_LINE_BREAK) * Cardinality(RunStarts(s_in))
    /\ s_twice # Pending => s_twice = s_once

\* a text with a run of two line breaks and a single one has been converted twice
C8_Witness ==
    /\ s_twice # Pending
    /\ Cardinality(RunStarts(s_in)) = 2
    /\ \E i \in 1..(Len(s_in) - 1) : s_in[i] = NL /\ s_in[i + 1] = NL

-----------------------------------------------------------------------------
(* Claims about the run of main *)

\* the address every chapter locator starts with: the home URL without "/d/"
BaseAddress == SubSeq(home_url, 1, Len(home_url) - 3)

\* the pattern matches a page holds, by its construction, in document order
PageMatches(frags) == SelectSeq(frags, LAMBDA f : f.kind \in {"link", "wild"})

\* the result of a page: its matches after the block of six decoys, as locators
PageResult(frags) ==
    LET m == PageMatches(frags)
    IN  [k \in 1..(IF Len(m) > 6 THEN Len(m) - 6 ELSE 0) |->
            BaseAddress \o RelPath(m[k + 6])]

\* the listing pages that were retrieved, in the order of their requests
Retrieved == SelectSeq(responses, LAMBDA r : r.status # "raised")

RECURSIVE SumLen(_)
SumLen(ss) == IF Len(ss) = 0 THEN 0 ELSE Len(Head(ss)) + SumLen(Tail(ss))

ListingDone == pc \in {"download", "close_session", "close_driver", "done"}
                  \/ failure \in {"chapter_fetch", "chapter_title", "chapter_body"}

\* C1: extract_chapter_urls requests the pages 1..P in increasing order, each
\* once, and returns the concatenation of the per-page results in page order,
\* of length the sum of their lengths, neither re-sorted nor deduplicated.
C1_DiscoveryIsConcatenation ==
    LET results == [i \in 1..Len(Retrieved) |-> PageResult(Retrieved[i].frags)]
    IN  /\ pc \notin {"start", "download_home"} =>
              requested = <<home_url>> \o [i \in 1..Len(responses) |->
                              home_url \o <<"?", "p", "a", "g", "e", "=">> \o Str(i)]
        /\ chapter_urls = Flatten(results)
        /\ Len(chapter_urls) = SumLen(results)
        /\ ListingDone =>
              /\ Len(responses) = chapter_pager_last
              /\ Len(Retrieved) = chapter_pager_last

\* three pages were retrieved, the first two with different results that share
\* a locator, and the list was returned
C1_Witness ==
    /\ pc = "download"
    /\ chapter_pager_last = 3
    /\ Len(PageResult(responses[1].frags)) = 1
    /\ Len(PageResult(responses[2].frags)) = MaxReal
    /\ PageResult(responses[3].frags) = PageResult(responses[1].frags)

\* the least width w >= 1 with n < 10^w
DecimalWidth(n) == CHOOSE w \in 1..6 : n < 10^w /\ (w = 1 \/ n >= 10^(w - 1))

ChapterFailed == failure \in {"chapter_fetch", "chapter_title", "chapter_body"}

\* C2: when every chapter fetch succeeds, the i-th locator gets the sequence
\* string i zero-padded to the width of T: the strings are the padded integers
\* 1..T, of one width, each once, in locator order, and the returned list has
\* that order.
C2_NumberingIsBijection ==
    LET T == Len(chapter_urls)
    IN  (ListingDone /\ ~ChapterFailed) =>
            /\ Len(chapters) = Len(driver_gets)
            /\ Len(chapter_htmls) = Len(chapters)
            /\ pc # "download" => Len(chapters) = T
            /\ \A i \in 1..Len(chapters) :
                 /\ Len(chapters[i].number_padded) = DecimalWidth(T)
                 /\ \A k \in 1..DecimalWidth(T) : IsDigit(chapters[i].number_padded[k])
                 /\ ToInt(chapters[i].number_padded) = i
                 /\ driver_gets[i] = chapter_urls[i]
                 /\ chapter_htmls[i] = chapters[i].html
                 /\ files[i + 1][1] =
                        OUTPUT \o <<"/", "d", "/">> \o CHAPTERS \o <<"/">>
                            \o chapters[i].number_padded \o <<"_">>
                            \o Casefold(Dashed(chapters[i].title)) \o DOT_HTML

\* a run of ten chapters or more completed
C2_Witness ==
    /\ pc = "done"
    /\ Len(chapters) >= 10
    /\ chapters[1].number_padded = <<"0", "1">>

\* C3: a listing page with six decoy matches followed by M >= 0 real ones
\* contributes the M real ones, in document order, each prefixed with the base
\* address; a page with fewer than six matches contributes nothing and no
\* error is raised.
C3_PageContribution ==
    [][(pc = "extract" /\ Len(responses') = Len(responses) + 1
          /\ responses'[Len(responses')].status # "raised")
        => LET m == PageMatches(responses'[Len(responses')].frags)
           IN  /\ pc' = "extract"
               /\ failure' = "none"
               /\ Len(m) >= 6 =>
                    chapter_urls' = chapter_urls \o
                        [k \in 1..(Len(m) - 6) |-> BaseAddress \o RelPath(m[k + 6])]
               /\ Len(m) < 6 => chapter_urls' = chapter_urls]_vars

\* a page of six decoys and two real matches among noise, and a page of three
\* matches, were retrieved
C3_Witness ==
    /\ pc = "download"
    /\ \E i, j \in 1..Len(responses) :
         /\ Len(PageMatches(responses[i].frags)) = 8
         /\ \E k \in 1..Len(responses[i].frags) : responses[i].frags[k].kind = "wild"
         /\ Len(PageMatches(responses[j].frags)) = 3
    /\ Len(chapter_urls) = 2

\* C5: when the retrieval of a listing page fails (the transport raises, or an
\* error page is answered), extract_chapter_urls returns no list: main does not
\* go on to the chapters and writes no chapter file and no aggregate.
C5_ListingFailureAborts ==
    (\E i \in 1..Len(responses) : responses[i].status \in {"raised", "error"})
        => /\ pc \notin {"download", "close_session", "close_driver", "done"}
           /\ driver_gets = <<>>
           /\ Len(files) = 1

\* the marker pattern is absent from the text: no data-page="<digit> with the
\* label Final after it on the same line
MarkerAbsent(text) ==
    ~ \E i, f \in 1..Len(text) :
         /\ HasAt(text, i, DATA_PAGE)
         /\ i + Len(DATA_PAGE) <= Len(text)
         /\ IsDigit(text[i + Len(DATA_PAGE)])
         /\ f > i + Len(DATA_PAGE)
         /\ HasAt(text, f, FINAL)
         /\ \A k \in (i + Len(DATA_PAGE))..(f - 1) : text[k] # NL

HomeWritten == Len(files) >= 1 /\ files[1][1] = HOME_PAGE

C7_ChapterFailureAborts ==
    /\ pc = "download" => Len(files) = 1 + Len(driver_gets)
    /\ ChapterFailed =>
         LET k == Len(driver_gets)
         IN  /\ pc = "aborted"
             /\ k >= 1 /\ k <= Len(chapter_urls)
             /\ driver_gets = SubSeq(chapter_urls, 1, k)
             /\ Len(chapters) = k - 1
             /\ Len(files) = k
             /\ \A i \in 1..(k - 1) :
                  /\ files[i + 1][1] =
                        chapter_file_path(chapters_dir, chapters[i].number_padded,
                                          chapters[i].title)
                  /\ files[i + 1][2] = chapters[i].html
                  /\ ToInt(chapters[i].number_padded) = i
             /\ \A i \in 1..Len(files) : files[i][1] # novel_file_path

\* the third chapter of more than three failed
C7_Witness ==
    /\ failure = "chapter_title"
    /\ Len(driver_gets) = 3
    /\ Len(chapter_urls) > 3
    /\ Len(files) = 3

AggregateWritten == \E i \in 1..Len(files) : files[i][1] = novel_file_path

\* C9: the pagination bound is computed once and never changes; the last
\* listing page is retrieved and the locator list complete, and not modified
\* afterwards, before the first chapter is requested; the aggregate is written
\* only after all T chapters are fetched and persisted.
C9_PhasesOrdered ==
    /\ [](AggregateWritten =>
            /\ Len(chapters) = Len(chapter_urls)
            /\ Len(driver_gets) = Len(chapter_urls)
            /\ Len(files) = Len(chapter_urls) + 2
            /\ files[Len(files)][1] = novel_file_path
            /\ files[Len(files)][2].chapter_htmls = chapter_htmls)
    /\ [](driver_gets # <<>> =>
            /\ Len(Retrieved) = chapter_pager_last
            /\ requested[Len(requested)] =
                  home_url \o <<"?", "p", "a", "g", "e", "=">> \o Str(chapter_pager_last))
    /\ [][/\ chapter_pager_last # -1 => chapter_pager_last' = chapter_pager_last
          /\ (driver_gets' # <<>> \/ ListingDone) =>
                (chapter_urls' = chapter_urls /\ requested' = requested)]_vars

\* a run over two listing pages and several chapters completed
C9_Witness ==
    /\ pc = "done"
    /\ chapter_pager_last >= 2
    /\ Len(chapters) >= 2
    /\ AggregateWritten

\* C10: at the end of every run, completed or aborted, the rendering session
\* and the transport session have been closed.
C10_SessionsClosedAtRunEnd ==
    (pc = "done" \/ (pc = "aborted" /\ (failure \in {"pager", "listing_fetch"} \/ ChapterFailed)))
        => (~driver_open /\ ~session_open)

====
